---------------------------- MODULE Spec2Model ----------------------------
(***************************************************************************)
(* dice-roll.py: the dice notation parser (process_dice and its helpers) *)
(* and the command roll_main that parses, validates, rolls, aggregates   *)
(* and prints.                                                            *)
(*                                                                         *)
(* A Python str is a sequence of one-character strings.  A Python         *)
(* exception escaping a helper is the value ValueError; an exception      *)
(* escaping roll_main ends the run in pc = "raised".                      *)
(***************************************************************************)
EXTENDS Integers, Sequences, FiniteSets, TLC

VARIABLES dice, use_max, use_min, pc, dice_roll, dice_roll_result, draws,
          result, errors, output, roll_calls, exc

vars == <<dice, use_max, use_min, pc, dice_roll, dice_roll_result, draws,
          result, errors, output, roll_calls, exc>>

-----------------------------------------------------------------------------
(* Bounds of the model *)

\* longest input string enumerated character by character (parser runs)
MaxLen == 6
\* largest dice count, die type and operand of the generated notations (full runs)
MaxCount == 3
MaxDieType == 4
MaxOperand == 2

-----------------------------------------------------------------------------
(* Characters and strings *)

\* value of the characters int() accepts
DigitValue == [ch \in {"0", "1", "2", "3", "4", "5", "6", "7", "8", "9"} |->
                 CASE ch = "0" -> 0 [] ch = "1" -> 1 [] ch = "2" -> 2
                   [] ch = "3" -> 3 [] ch = "4" -> 4 [] ch = "5" -> 5
                   [] ch = "6" -> 6 [] ch = "7" -> 7 [] ch = "8" -> 8
                   [] ch = "9" -> 9]

\* a character str.isnumeric() accepts and int() rejects (U+00BD)
VulgarHalf == "1/2"

\* characters for which str.isnumeric() is true
NumericChars == DOMAIN DigitValue \cup {VulgarHalf}

\* a helper's outcome: the exception it raises, or the value it returns
\* (val) with the unconsumed rest of the string (rest)
ValueError == [tag |-> "ValueError"]

Return(val, rest) == [tag |-> "return", val |-> val, rest |-> rest]

Raises(r) == r.tag = "ValueError"

\* str.isnumeric(): non-empty and every character numeric
isnumeric(s) == Len(s) > 0 /\ \A i \in 1..Len(s) : s[i] \in NumericChars

\* int(str) on a string of numeric characters: left-to-right decimal value,
\* ValueError when a character is not a decimal digit
RECURSIVE int_acc(_, _, _)
int_acc(s, i, acc) ==
    IF i > Len(s) THEN Return(acc, <<>>)
    ELSE IF s[i] \notin DOMAIN DigitValue THEN ValueError
    ELSE int_acc(s, i + 1, acc * 10 + DigitValue[s[i]])

int(s) == IF Len(s) = 0 THEN ValueError ELSE int_acc(s, 1, 0)

\* str.split(sep): the pieces between the occurrences of sep
RECURSIVE split(_, _)
split(s, sep) ==
    IF \E i \in 1..Len(s) : s[i] = sep
    THEN LET i == CHOOSE k \in 1..Len(s) :
                    s[k] = sep /\ \A j \in 1..(k - 1) : s[j] # sep
         IN  <<SubSeq(s, 1, i - 1)>> \o split(SubSeq(s, i + 1, Len(s)), sep)
    ELSE <<s>>

\* the slice s[i:] with a 0-based start
SliceFrom(s, i) == SubSeq(s, i + 1, Len(s))

-----------------------------------------------------------------------------
(* Data model *)

RollOperation == {"ADD", "SUB", "INDV_ADD", "INDV_SUB", "NO_OPERATION"}

DiceRoll(count, die_type, operation, operand) ==
    [tag |-> "DiceRoll", count |-> count, die_type |-> die_type,
     operation |-> operation, operand |-> operand]

None == [tag |-> "None"]

-----------------------------------------------------------------------------
(* Parser *)

get_count(d) ==
    LET sp == split(d, "d") IN
    IF ~isnumeric(sp[1]) \/ Len(sp) # 2 THEN ValueError
    ELSE LET n == int(sp[1]) IN
         IF Raises(n) THEN ValueError ELSE Return(n.val, sp[2])

\* the while loop of get_die_type from position i (0-based) with accumulator count
RECURSIVE get_die_type_loop(_, _, _)
get_die_type_loop(d, i, count) ==
    IF i < Len(d) /\ isnumeric(<<d[i + 1]>>)
    THEN LET v == int(<<d[i + 1]>>) IN
         IF Raises(v) THEN ValueError
         ELSE get_die_type_loop(d, i + 1, count * 10 + v.val)
    ELSE Return(count, i)

\* get_die_type without the check that a digit was consumed
get_die_type_unchecked(d) ==
    LET r == get_die_type_loop(d, 0, 0) IN
    IF Raises(r) THEN ValueError
    ELSE Return(r.val, SliceFrom(d, r.rest))

get_die_type(d) ==
    LET r == get_die_type_loop(d, 0, 0) IN
    IF Raises(r) THEN ValueError
    ELSE IF r.rest = 0 THEN ValueError
    ELSE Return(r.val, SliceFrom(d, r.rest))

\* get_operation that drops one character after a two-character modifier
get_operation_short_slice(d) ==
    IF Len(d) = 0 THEN Return("NO_OPERATION", <<>>)
    ELSE IF d[1] = "+" THEN Return("ADD", SliceFrom(d, 1))
    ELSE IF d[1] = "-" THEN Return("SUB", SliceFrom(d, 1))
    ELSE IF d[1] = "."
         THEN IF Len(d) = 1 THEN ValueError
              ELSE IF d[2] = "+" THEN Return("INDV_ADD", SliceFrom(d, 1))
              ELSE IF d[2] = "-" THEN Return("INDV_SUB", SliceFrom(d, 1))
              ELSE ValueError
    ELSE ValueError

get_operation(d) ==
    IF Len(d) = 0 THEN Return("NO_OPERATION", <<>>)
    ELSE IF d[1] = "+" THEN Return("ADD", SliceFrom(d, 1))
    ELSE IF d[1] = "-" THEN Return("SUB", SliceFrom(d, 1))
    ELSE IF d[1] = "."
         THEN IF Len(d) = 1 THEN ValueError
              ELSE IF d[2] = "+" THEN Return("INDV_ADD", SliceFrom(d, 2))
              ELSE IF d[2] = "-" THEN Return("INDV_SUB", SliceFrom(d, 2))
              ELSE ValueError
    ELSE ValueError

get_operand(d) ==
    IF Len(d) = 0 THEN Return(0, <<>>)
    ELSE IF ~isnumeric(d) THEN ValueError
    ELSE int(d)

\* the try block; the bare except turns every exception into None
process_dice(d) ==
    LET c == get_count(d) IN
    IF Raises(c) THEN None ELSE
    LET t == get_die_type(c.rest) IN
    IF Raises(t) THEN None ELSE
    LET o == get_operation(t.rest) IN
    IF Raises(o) THEN None ELSE
    LET k == get_operand(o.rest) IN
    IF Raises(k) THEN None ELSE
    DiceRoll(c.val, t.val, o.val, k.val)

-----------------------------------------------------------------------------
(* Builtins used by roll_main *)

\* sum(list): left-to-right accumulation from 0
RECURSIVE sum(_)
sum(l) == IF Len(l) = 0 THEN 0 ELSE sum(SubSeq(l, 1, Len(l) - 1)) + l[Len(l)]

\* max(list), min(list) on a non-empty list: keep the first best element seen
RECURSIVE max(_)
max(l) ==
    IF Len(l) = 1 THEN l[1]
    ELSE LET m == max(SubSeq(l, 1, Len(l) - 1)) IN
         IF l[Len(l)] > m THEN l[Len(l)] ELSE m

RECURSIVE min(_)
min(l) ==
    IF Len(l) = 1 THEN l[1]
    ELSE LET m == min(SubSeq(l, 1, Len(l) - 1)) IN
         IF l[Len(l)] < m THEN l[Len(l)] ELSE m

\* a per-die lambda passed for ADD and SUB as well
operation_every_modifier(r, x) ==
    IF r.operation \in {"INDV_ADD", "ADD"} THEN x + r.operand
    ELSE IF r.operation \in {"INDV_SUB", "SUB"} THEN x - r.operand
    ELSE x

\* the lambda roll_main passes to roll for the spec r
operation(r, x) ==
    IF r.operation = "INDV_ADD" THEN x + r.operand
    ELSE IF r.operation = "INDV_SUB" THEN x - r.operand
    ELSE x

\* random.randint(1, die_type) raises ValueError on an empty range
randint_raises(die_type) == die_type < 1

\* an adjustment that treats the per-die operations like ADD and SUB
adjust_every_modifier(r, res) ==
    IF r.operation \in {"ADD", "INDV_ADD"} THEN res + r.operand
    ELSE IF r.operation \in {"SUB", "INDV_SUB"} THEN res - r.operand
    ELSE res

\* lines 158-161: the adjustment after aggregation
adjust(r, res) ==
    IF r.operation = "ADD" THEN res + r.operand
    ELSE IF r.operation = "SUB" THEN res - r.operand
    ELSE res

-----------------------------------------------------------------------------
(* Inputs *)

\* the characters typed into the enumerated input strings: two digits, the
\* separator, the modifier characters, a non-numeric character and a
\* numeric character that is no decimal digit
Alphabet == {"3", "6", "d", "+", "-", ".", "x", VulgarHalf}

\* the strings the specification document names
Examples ==
    { <<>>, <<"d", "6">>, <<"3", "d">>, <<"3", "x", "6">>,
      <<"3", "d", "6", ".">>, <<"3", "d", "6", ".", "x", "2">>,
      <<"3", "d", "6", "+", "2">>, <<"3", "d", "6", "-", "2">>,
      <<"3", "d", "6", ".", "+", "2">>, <<"3", "d", "6", ".", "-", "2">>,
      <<"0", "d", "6">>, <<"1", "d", "1">>,
      <<"4", "d", "6", ".", "+", "1">> }

\* decimal notation of a natural number
DigitChar == [v \in 0..9 |-> CHOOSE ch \in DOMAIN DigitValue : DigitValue[ch] = v]

RECURSIVE str(_)
str(n) == IF n < 10 THEN <<DigitChar[n]>> ELSE Append(str(n \div 10), DigitChar[n % 10])

Modifiers == { <<"+">>, <<"-">>, <<".", "+">>, <<".", "-">> }

\* <COUNT>d<DIE TYPE>[<OPERATION>[<OPERAND>]] for the bounded counts, die
\* types and operands, zero included
Notations ==
    LET base == { str(c) \o <<"d">> \o str(t) : c \in 0..MaxCount, t \in 0..MaxDieType }
    IN  base
        \cup { b \o m : b \in base, m \in Modifiers }
        \cup { b \o m \o str(k) : b \in base, m \in Modifiers, k \in 0..MaxOperand }

\* inputs that are no notation
Malformed ==
    { <<"3">>, <<"d">>, <<"3", "d", "d", "6">>, <<"3", "d", "6", "x">>,
      <<"3", "d", "6", "+", "x">>, <<VulgarHalf, "d", "6">>,
      <<"3", "d", VulgarHalf>>, <<"3", "d", "6", "+", VulgarHalf>> }

RunInputs == Notations \cup Examples \cup Malformed

-----------------------------------------------------------------------------
(* roll_main, step by step *)

print_error(msg) == errors' = Append(errors, msg)

print_output(title, d, l, res) ==
    output' = Append(output, [title |-> title, dice |-> d, rolls |-> l, result |-> res])

InitWith(inputs) ==
    /\ dice \in inputs
    /\ use_max \in BOOLEAN
    /\ use_min \in BOOLEAN
    /\ pc = "process_dice"
    /\ dice_roll = None
    /\ dice_roll_result = <<>>
    /\ draws = <<>>
    /\ result = 0
    /\ errors = <<>>
    /\ output = <<>>
    /\ roll_calls = 0
    /\ exc = ""

\* line 135: dice_roll = process_dice(dice)
ProcessDice ==
    /\ pc = "process_dice"
    /\ dice_roll' = process_dice(dice)
    /\ pc' = "check_none"
    /\ UNCHANGED <<dice, use_max, use_min, dice_roll_result, draws, result,
                   errors, output, roll_calls, exc>>

\* the failed parse reported without the return
InvalidFormat_no_return ==
    /\ pc = "check_none"
    /\ dice_roll = None
    /\ print_error("Invalid format for argument 'Dice'")
    /\ pc' = "roll"
    /\ UNCHANGED <<dice, use_max, use_min, dice_roll, dice_roll_result, draws,
                   result, output, roll_calls, exc>>

\* lines 137-139: a failed parse is reported and roll_main returns
InvalidFormat ==
    /\ pc = "check_none"
    /\ dice_roll = None
    /\ print_error("Invalid format for argument 'Dice'")
    /\ pc' = "returned"
    /\ UNCHANGED <<dice, use_max, use_min, dice_roll, dice_roll_result, draws,
                   result, output, roll_calls, exc>>

\* the count check followed by a return
CheckCount_return ==
    /\ pc = "check_none"
    /\ dice_roll # None
    /\ IF dice_roll.count <= 0
       THEN print_error("The number of dice rolled must be positive") /\ pc' = "returned"
       ELSE UNCHANGED errors /\ pc' = "roll"
    /\ UNCHANGED <<dice, use_max, use_min, dice_roll, dice_roll_result, draws,
                   result, output, roll_calls, exc>>

\* lines 141-142: a count that is not positive is reported; no return follows
CheckCount ==
    /\ pc = "check_none"
    /\ dice_roll # None
    /\ IF dice_roll.count <= 0
       THEN print_error("The number of dice rolled must be positive")
       ELSE UNCHANGED errors
    /\ pc' = "roll"
    /\ UNCHANGED <<dice, use_max, use_min, dice_roll, dice_roll_result, draws,
                   result, output, roll_calls, exc>>

\* lines 144-149 and roll (120-122): count draws from randint(1, die_type),
\* each passed through the operation; the first draw from an empty range raises
Roll ==
    /\ pc = "roll"
    /\ roll_calls' = roll_calls + 1
    /\ IF dice_roll.count > 0 /\ randint_raises(dice_roll.die_type)
       THEN /\ pc' = "raised"
            /\ exc' = "randint"
            /\ UNCHANGED <<draws, dice_roll_result>>
       ELSE /\ \E ds \in [1..dice_roll.count -> 1..dice_roll.die_type] :
                 /\ draws' = ds
                 /\ dice_roll_result' =
                        [i \in 1..dice_roll.count |-> operation(dice_roll, ds[i])]
            /\ pc' = "aggregate"
            /\ UNCHANGED exc
    /\ UNCHANGED <<dice, use_max, use_min, dice_roll, result, errors, output>>

\* the aggregation with use_min tested before use_max
Aggregate_min_first ==
    /\ pc = "aggregate"
    /\ IF (use_max \/ use_min) /\ Len(dice_roll_result) = 0
       THEN /\ pc' = "raised"
            /\ exc' = IF use_min THEN "min" ELSE "max"
            /\ UNCHANGED result
       ELSE /\ result' = IF use_min THEN min(dice_roll_result)
                         ELSE IF use_max THEN max(dice_roll_result)
                         ELSE sum(dice_roll_result)
            /\ pc' = "adjust"
            /\ UNCHANGED exc
    /\ UNCHANGED <<dice, use_max, use_min, dice_roll, dice_roll_result, draws,
                   errors, output, roll_calls>>

\* lines 151-156: max and min raise ValueError on an empty list
Aggregate ==
    /\ pc = "aggregate"
    /\ IF (use_max \/ use_min) /\ Len(dice_roll_result) = 0
       THEN /\ pc' = "raised"
            /\ exc' = IF use_max THEN "max" ELSE "min"
            /\ UNCHANGED result
       ELSE /\ result' = IF use_max THEN max(dice_roll_result)
                         ELSE IF use_min THEN min(dice_roll_result)
                         ELSE sum(dice_roll_result)
            /\ pc' = "adjust"
            /\ UNCHANGED exc
    /\ UNCHANGED <<dice, use_max, use_min, dice_roll, dice_roll_result, draws,
                   errors, output, roll_calls>>

\* lines 158-161
Adjust ==
    /\ pc = "adjust"
    /\ result' = adjust(dice_roll, result)
    /\ pc' = "print_output"
    /\ UNCHANGED <<dice, use_max, use_min, dice_roll, dice_roll_result, draws,
                   errors, output, roll_calls, exc>>

\* line 163
PrintOutput ==
    /\ pc = "print_output"
    /\ print_output("Roll", dice, dice_roll_result, result)
    /\ pc' = "returned"
    /\ UNCHANGED <<dice, use_max, use_min, dice_roll, dice_roll_result, draws,
                   result, errors, roll_calls, exc>>

Init == InitWith(RunInputs)

Next ==
    \/ ProcessDice
    \/ InvalidFormat
    \/ CheckCount
    \/ Roll
    \/ Aggregate
    \/ Adjust
    \/ PrintOutput

Spec == Init /\ [][Next]_vars

-----------------------------------------------------------------------------
(* The parser alone, on every string of at most MaxLen characters *)

\* the command line argument, one character at a time
Type(ch) ==
    /\ pc = "process_dice"
    /\ Len(dice) < MaxLen
    /\ dice' = Append(dice, ch)
    /\ UNCHANGED <<use_max, use_min, pc, dice_roll, dice_roll_result, draws,
                   result, errors, output, roll_calls, exc>>

InitParser == InitWith(Examples) /\ ~use_max /\ ~use_min

NextParser ==
    \/ \E ch \in Alphabet : Type(ch)
    \/ ProcessDice

SpecParser == InitParser /\ [][NextParser]_vars

-----------------------------------------------------------------------------
(* Reference notions the properties are stated with *)

DecimalDigits == {"0", "1", "2", "3", "4", "5", "6", "7", "8", "9"}

\* a non-empty run of decimal digits
IsDigits(s) == Len(s) > 0 /\ \A i \in 1..Len(s) : s[i] \in DecimalDigits

RECURSIVE Pow10(_)
Pow10(n) == IF n = 0 THEN 1 ELSE 10 * Pow10(n - 1)

\* positional value of a run of decimal digits
RECURSIVE Value(_)
Value(s) ==
    IF Len(s) = 0 THEN 0
    ELSE DigitValue[Head(s)] * Pow10(Len(s) - 1) + Value(Tail(s))

ModifierOperation(m) ==
    CASE m = <<"+">> -> "ADD"
      [] m = <<"-">> -> "SUB"
      [] m = <<".", "+">> -> "INDV_ADD"
      [] m = <<".", "-">> -> "INDV_SUB"

StartsWith(s, m) == Len(s) >= Len(m) /\ SubSeq(s, 1, Len(m)) = m

Elements(l) == {l[i] : i \in 1..Len(l)}

Greatest(l) == CHOOSE m \in Elements(l) : \A x \in Elements(l) : x <= m

Least(l) == CHOOSE m \in Elements(l) : \A x \in Elements(l) : m <= x

RECURSIVE Total(_)
Total(l) == IF Len(l) = 0 THEN 0 ELSE Head(l) + Total(Tail(l))

\* the aggregate of the list l under the flags of this run
ModeAggregate(l) ==
    IF use_max THEN Greatest(l) ELSE IF use_min THEN Least(l) ELSE Total(l)

Parsed == pc # "process_dice"

Printed == pc = "returned" /\ Len(output) = 1

InvalidFormatMsg == "Invalid format for argument 'Dice'"

NotPositiveMsg == "The number of dice rolled must be positive"

-----------------------------------------------------------------------------
(* C1 *)

\* C1: an input <c>d<t>, optionally followed by one of the modifiers "+", "-",
\* ".+", ".-" and an operand <k> (c, t, k non-empty runs of decimal digits),
\* parses to count = value(c), die_type = value(t) and NO_OPERATION with
\* operand 0, or the modifier's operation with operand = value(k).
C1_WellFormedParses ==
    Parsed =>
    \A i \in 1..Len(dice) : \A j \in (i + 1)..Len(dice) :
        LET c == SubSeq(dice, 1, i - 1)
            t == SubSeq(dice, i + 1, j)
            rest == SubSeq(dice, j + 1, Len(dice))
        IN  (dice[i] = "d" /\ IsDigits(c) /\ IsDigits(t)) =>
              /\ rest = <<>> =>
                   dice_roll = DiceRoll(Value(c), Value(t), "NO_OPERATION", 0)
              /\ \A m \in Modifiers :
                   LET k == SubSeq(rest, Len(m) + 1, Len(rest)) IN
                   (StartsWith(rest, m) /\ IsDigits(k)) =>
                      dice_roll = DiceRoll(Value(c), Value(t),
                                           ModifierOperation(m), Value(k))

C1_Witness ==
    /\ Parsed
    /\ dice = <<"3", "d", "6", ".", "-", "2">>
    /\ dice_roll = DiceRoll(3, 6, "INDV_SUB", 2)

-----------------------------------------------------------------------------
(* C2 *)

\* the conditions under which the claim says the parse fails
ClaimedInvalid(s) ==
    LET ds == {i \in 1..Len(s) : s[i] = "d"} IN
    \/ Cardinality(ds) # 1
    \/ /\ Cardinality(ds) = 1
       /\ LET p == CHOOSE i \in ds : TRUE
              prefix == SubSeq(s, 1, p - 1)
              after == SubSeq(s, p + 1, Len(s))
              \* length of the maximal run of decimal digits after "d"
              n == CHOOSE j \in 0..Len(after) :
                     /\ \A i \in 1..j : after[i] \in DecimalDigits
                     /\ j < Len(after) => after[j + 1] \notin DecimalDigits
              suffix == SubSeq(after, n + 1, Len(after))
              operand == IF StartsWith(suffix, <<"+">>) \/ StartsWith(suffix, <<"-">>)
                         THEN SubSeq(suffix, 2, Len(suffix))
                         ELSE SubSeq(suffix, 3, Len(suffix))
          IN  \/ ~IsDigits(prefix)
              \/ n = 0
              \/ Len(suffix) > 0 /\ suffix[1] \notin {"+", "-", "."}
              \/ \E i \in 1..Len(s) :
                    s[i] = "." /\ (i = Len(s) \/ s[i + 1] \notin {"+", "-"})
              \/ \E i \in 1..Len(operand) : operand[i] \notin DecimalDigits

\* C2: process_dice returns None (and nothing else, no exception) for every
\* input with not exactly one "d", an empty or non-digit prefix, no digit
\* after "d", a first character after the die type other than "+", "-", ".",
\* a "." that is last or not followed by "+" or "-", or a non-digit in the
\* operand; "", "d6", "3d", "3x6", "3d6." and "3d6.x2" among them.
C2_MalformedFails ==
    Parsed =>
      /\ dice_roll.tag \in {"None", "DiceRoll"}
      /\ ClaimedInvalid(dice) => dice_roll = None
      /\ dice \in { <<>>, <<"d", "6">>, <<"3", "d">>, <<"3", "x", "6">>,
                    <<"3", "d", "6", ".">>, <<"3", "d", "6", ".", "x", "2">> }
           => dice_roll = None

C2_Witness ==
    /\ Parsed
    /\ dice = <<"3", "d", "6", ".", "x", "2">>
    /\ ClaimedInvalid(dice)
    /\ dice_roll = None

-----------------------------------------------------------------------------
(* C3 *)

\* C3: a spec with operation ADD, SUB, INDV_ADD or INDV_SUB comes only from
\* an input whose modifier is followed by at least one digit; an input that
\* ends right after the modifier sign is a parse failure.
C3_ModifierNeedsOperand ==
    (Parsed /\ dice_roll # None /\ dice_roll.operation # "NO_OPERATION") =>
        dice[Len(dice)] \in DecimalDigits

-----------------------------------------------------------------------------
(* C4 *)

\* C4: once a parsed spec with count = n is evaluated, whatever the random
\* source returns, there are exactly n individual results in draw order and
\* every draw lies in 1..die_type; "1d1" gives results [1] and aggregate 1.
C4_RollYieldsCountDraws ==
    roll_calls > 0 =>
      /\ exc # "randint"
      /\ Len(draws) = dice_roll.count
      /\ Len(dice_roll_result) = dice_roll.count
      /\ \A i \in 1..Len(draws) : draws[i] \in 1..dice_roll.die_type
      /\ (dice = <<"1", "d", "1">> /\ pc = "returned") =>
            output = <<[title |-> "Roll", dice |-> dice, rolls |-> <<1>>, result |-> 1]>>

-----------------------------------------------------------------------------
(* C5 *)

\* C5: with NO_OPERATION and a non-empty result sequence the aggregate is
\* the maximum whenever use_max is set (use_min set or not), the minimum
\* when only use_min is set, the sum when neither is set.
C5_AggregateMode ==
    (/\ pc \in {"adjust", "print_output"} \/ Printed
     /\ dice_roll.operation = "NO_OPERATION"
     /\ Len(dice_roll_result) > 0) =>
        result = (IF use_max THEN Greatest(dice_roll_result)
                  ELSE IF use_min THEN Least(dice_roll_result)
                  ELSE Total(dice_roll_result))

C5_Witness ==
    /\ Printed
    /\ dice_roll.operation = "NO_OPERATION"
    /\ use_max /\ use_min
    /\ Greatest(dice_roll_result) # Least(dice_roll_result)
    /\ result = Greatest(dice_roll_result)

-----------------------------------------------------------------------------
(* C6 *)

\* C6: for the same draws and the same aggregation mode, ADD with operand k
\* prints an aggregate k above, SUB an aggregate k below, the aggregate of
\* the draws under NO_OPERATION; the printed individual results are the raw
\* draws.
C6_PostAggregationShift ==
    (Printed /\ dice_roll.operation \in {"ADD", "SUB"}) =>
      /\ output[1].rolls = draws
      /\ dice_roll.operation = "ADD" =>
            output[1].result = ModeAggregate(draws) + dice_roll.operand
      /\ dice_roll.operation = "SUB" =>
            output[1].result = ModeAggregate(draws) - dice_roll.operand

C6_Witness ==
    /\ Printed
    /\ dice_roll.operation = "SUB"
    /\ dice_roll.operand = 2
    /\ use_min
    /\ Len(draws) > 1
    /\ output[1].result = Least(draws) - 2
    /\ output[1].result # Greatest(draws) - 2

-----------------------------------------------------------------------------
(* C7 *)

\* C7: with INDV_ADD (INDV_SUB) and operand k every printed individual
\* result is its draw plus k (minus k), and the aggregate is that of the
\* transformed values with nothing applied afterwards: the sum of the draws
\* plus (minus) n*k, or the max/min of the draws plus (minus) k.  "4d6.+1"
\* with draws [2,5,1,6] prints [3,6,2,7] and the sum 18.
C7_PerDieTransform ==
    /\ (Printed /\ dice_roll.operation \in {"INDV_ADD", "INDV_SUB"}) =>
          LET k == IF dice_roll.operation = "INDV_ADD"
                   THEN dice_roll.operand ELSE 0 - dice_roll.operand
              n == Len(draws)
          IN  /\ Len(output[1].rolls) = n
              /\ \A i \in 1..n : output[1].rolls[i] = draws[i] + k
              /\ output[1].result =
                    (IF use_max THEN Greatest(draws) + k
                     ELSE IF use_min THEN Least(draws) + k
                     ELSE Total(draws) + n * k)
    /\ (/\ Printed
        /\ dice = <<"4", "d", "6", ".", "+", "1">>
        /\ draws = <<2, 5, 1, 6>>
        /\ ~use_max /\ ~use_min) =>
          /\ output[1].rolls = <<3, 6, 2, 7>>
          /\ output[1].result = 18

C7_Witness ==
    /\ Printed
    /\ dice = <<"4", "d", "6", ".", "+", "1">>
    /\ draws = <<2, 5, 1, 6>>
    /\ ~use_max /\ ~use_min
    /\ output[1].rolls = <<3, 6, 2, 7>>
    /\ output[1].result = 18

-----------------------------------------------------------------------------
(* C8 *)

\* C8: when the input fails to parse, exactly one error ("Invalid format")
\* is reported, roll is never invoked, no draw is taken and no outcome is
\* printed; roll is invoked only after process_dice returned a spec.
C8_FailedParseStops ==
    /\ (Parsed /\ dice_roll = None) =>
          /\ roll_calls = 0
          /\ draws = <<>>
          /\ output = <<>>
          /\ pc \in {"check_none", "returned"}
          /\ pc = "check_none" => errors = <<>>
          /\ pc = "returned" => errors = <<InvalidFormatMsg>>
    /\ roll_calls > 0 => (Parsed /\ dice_roll # None)

C8_Witness ==
    /\ pc = "returned"
    /\ dice_roll = None
    /\ dice = <<"3", "d", "6", "+", "x">>
    /\ errors = <<InvalidFormatMsg>>
    /\ roll_calls = 0

-----------------------------------------------------------------------------
(* C9 *)

\* C9: an input with count 0 parses; roll_main reports "must be positive"
\* and still evaluates, with an empty result sequence; under Sum the
\* aggregate is 0, shifted by +operand for ADD and -operand for SUB, and an
\* outcome is printed; under Max or Min the aggregation raises and nothing
\* is printed.
C9_ZeroCount ==
    /\ (Parsed /\ dice = <<"0", "d", "6">>) =>
          dice_roll = DiceRoll(0, 6, "NO_OPERATION", 0)
    /\ (Parsed /\ dice_roll # None /\ dice_roll.count = 0) =>
          /\ pc # "check_none" => errors = <<NotPositiveMsg>>
          /\ pc \in {"aggregate", "adjust", "print_output", "raised"} => roll_calls = 1
          /\ roll_calls > 0 => (dice_roll_result = <<>> /\ draws = <<>>)
          /\ pc = "raised" => (exc \in {"max", "min"} /\ (use_max \/ use_min))
          /\ (use_max \/ use_min) =>
                (output = <<>> /\ pc \in {"check_none", "roll", "aggregate", "raised"})
          /\ pc = "returned" =>
                /\ ~use_max /\ ~use_min
                /\ roll_calls = 1
                /\ output = <<[title |-> "Roll", dice |-> dice, rolls |-> <<>>,
                               result |-> (IF dice_roll.operation = "ADD"
                                           THEN dice_roll.operand
                                           ELSE IF dice_roll.operation = "SUB"
                                           THEN 0 - dice_roll.operand
                                           ELSE 0)]>>

C9_Witness ==
    /\ pc = "returned"
    /\ dice_roll = DiceRoll(0, 2, "SUB", 2)
    /\ errors = <<NotPositiveMsg>>
    /\ roll_calls = 1
    /\ output[1].rolls = <<>>
    /\ output[1].result = 0 - 2

-----------------------------------------------------------------------------
(* C10 *)

\* C10: whenever roll is invoked and no error has been reported, the spec
\* has count >= 1 and die_type >= 1 and the evaluation raises nothing.
C10_ValidatedSpecPositive ==
    (roll_calls > 0 /\ errors = <<>>) =>
      /\ dice_roll.count >= 1
      /\ dice_roll.die_type >= 1
      /\ pc # "raised"

=============================================================================
